---- MODULE Spec2Model ----
(***************************************************************************)
(* A model of inventory.py: the inventory dictionary and the functions     *)
(* add_item, remove_item, get_qty, check_low_items, load_data, save_data,  *)
(* print_data and main.                                                    *)
(*                                                                         *)
(* A Python dict keeps its keys in insertion order, so a dict is a         *)
(* sequence of entries [k, v] with pairwise distinct keys.  Python values  *)
(* are tagged with their type: an item is a str, an int or a list (which   *)
(* is unhashable), a quantity is an int or a str.  A str is the sequence   *)
(* of its characters, so that JSON text is produced and parsed character   *)
(* by character.                                                           *)
(***************************************************************************)
EXTENDS Integers, Sequences, FiniteSets, TLC

\* ------------------------------------------------------------------ bounds

\* Calls made on one inventory in the specification Spec.
MaxCalls == 3
\* Quantities passed to add_item and remove_item range over -1 .. MaxQty.
MaxQty == 2
\* Entries of the inventories that SpecIO starts from.
MaxItems == 2

\* ------------------------------------------------------------ Python values

Str(c) == [type |-> "str", chars |-> c]

apple == Str(<<"a", "p", "p", "l", "e">>)
banana == Str(<<"b", "a", "n", "a", "n", "a">>)
orange == Str(<<"o", "r", "a", "n", "g", "e">>)
\* a key that needs escaping in JSON: the two characters  q"
quoted == Str(<<"q", "\"">>)
\* the int 123, written by its decimal digits
k123 == [type |-> "int", chars |-> <<"1", "2", "3">>]
\* a list such as []: unhashable, it cannot be a dict key
aList == [type |-> "list", chars |-> <<>>]

IntQ(n) == [type |-> "int", n |-> n]
\* the str "ten" passed as a quantity
ten == [type |-> "str", n |-> 0]

Hashable(item) == item.type # "list"
Numeric(qty) == qty.type = "int"

\* ------------------------------------------------------------------- dict

Keys(data) == {data[i].k : i \in 1..Len(data)}

\* item in data: hashing a list raises TypeError, so callers test Hashable first
Has(data, item) == \E i \in 1..Len(data) : data[i].k = item

IndexOf(data, item) == CHOOSE i \in 1..Len(data) : data[i].k = item

\* data.get(item, default)
DictGet(data, item, default) ==
    IF Has(data, item) THEN data[IndexOf(data, item)].v ELSE default

\* data[item] = v : an existing key keeps its place, a new key goes last
DictSet(data, item, v) ==
    IF Has(data, item)
    THEN [data EXCEPT ![IndexOf(data, item)].v = v]
    ELSE Append(data, [k |-> item, v |-> v])

\* del data[item]
DictDel(data, item) == SelectSeq(data, LAMBDA e : e.k # item)

\* Python's dict equality: the same keys with the same values, in any order
DictEq(a, b) ==
    /\ Keys(a) = Keys(b)
    /\ \A k \in Keys(a) : DictGet(a, k, 0) = DictGet(b, k, 0)

\* ---------------------------------------------------------------- logging

Notice(level, msg) == [level |-> level, msg |-> msg]

\* What one call did: the dict afterwards, the caller's log list afterwards,
\* the notices logged, the exception that escaped ("none" if none) and the
\* value returned.
Outcome(data, lg, ns, exc, ret) ==
    [data |-> data, logs |-> lg, notices |-> ns, raised |-> exc, ret |-> ret]

NoValue == "None"

\* The logs argument of add_item: None, or the caller's list.
LogsNone == [isNone |-> TRUE, list |-> <<>>]
LogsList(l) == [isNone |-> FALSE, list |-> l]

\* -------------------------------------------------- inventory operations

\* add_item written as  data.setdefault(item, 0); data[item] += qty :
\* the key is stored before the addition raises
add_item_setdefault(data, item, qty, logs) ==
    LET lg == IF logs.isNone THEN <<>> ELSE logs.list
    IN  IF ~Hashable(item)
        THEN Outcome(data, lg,
                     <<Notice("ERROR", "Invalid data type for item or quantity")>>,
                     "none", NoValue)
        ELSE IF ~Numeric(qty)
        THEN Outcome(DictSet(data, item, DictGet(data, item, 0)), lg,
                     <<Notice("ERROR", "Invalid data type for item or quantity")>>,
                     "none", NoValue)
        ELSE Outcome(DictSet(data, item, DictGet(data, item, 0) + qty.n),
                     Append(lg, [added |-> qty.n, of |-> item]),
                     <<Notice("INFO", "Added")>>,
                     "none", NoValue)

add_item(data, item, qty, logs) ==
    LET lg == IF logs.isNone THEN <<>> ELSE logs.list
    IN  IF ~Hashable(item) \/ ~Numeric(qty)
        THEN \* data.get(item, 0) + qty raises TypeError before anything is stored
             Outcome(data, lg,
                     <<Notice("ERROR", "Invalid data type for item or quantity")>>,
                     "none", NoValue)
        ELSE Outcome(DictSet(data, item, DictGet(data, item, 0) + qty.n),
                     Append(lg, [added |-> qty.n, of |-> item]),
                     <<Notice("INFO", "Added")>>,
                     "none", NoValue)

\* remove_item written as  left = data.pop(item) - qty :
\* the entry is gone before the subtraction raises
remove_item_pop(data, item, qty) ==
    IF ~Hashable(item)
    THEN Outcome(data, <<>>, <<Notice("ERROR", "Invalid quantity type")>>,
                 "none", NoValue)
    ELSE IF Has(data, item)
    THEN IF ~Numeric(qty)
         THEN Outcome(DictDel(data, item), <<>>,
                      <<Notice("ERROR", "Invalid quantity type")>>, "none", NoValue)
         ELSE LET left == DictGet(data, item, 0) - qty.n
              IN  Outcome(IF left <= 0 THEN DictDel(data, item)
                          ELSE DictSet(data, item, left),
                          <<>>, <<Notice("INFO", "Removed")>>, "none", NoValue)
    ELSE Outcome(data, <<>>,
                 <<Notice("WARNING", "Attempted to remove an item that does not exist")>>,
                 "none", NoValue)

\* remove_item without  if data[item] <= 0: del data[item]
remove_item_keep(data, item, qty) ==
    IF ~Hashable(item)
    THEN Outcome(data, <<>>, <<Notice("ERROR", "Invalid quantity type")>>,
                 "none", NoValue)
    ELSE IF Has(data, item)
    THEN IF ~Numeric(qty)
         THEN Outcome(data, <<>>, <<Notice("ERROR", "Invalid quantity type")>>,
                      "none", NoValue)
         ELSE Outcome(DictSet(data, item, DictGet(data, item, 0) - qty.n),
                      <<>>, <<Notice("INFO", "Removed")>>, "none", NoValue)
    ELSE Outcome(data, <<>>,
                 <<Notice("WARNING", "Attempted to remove an item that does not exist")>>,
                 "none", NoValue)

remove_item(data, item, qty) ==
    IF ~Hashable(item)
    THEN \* item in data raises TypeError
         Outcome(data, <<>>, <<Notice("ERROR", "Invalid quantity type")>>,
                 "none", NoValue)
    ELSE IF Has(data, item)
    THEN IF ~Numeric(qty)
         THEN \* data[item] - qty raises TypeError before the store
              Outcome(data, <<>>, <<Notice("ERROR", "Invalid quantity type")>>,
                      "none", NoValue)
         ELSE LET stored == DictSet(data, item, DictGet(data, item, 0) - qty.n)
              IN  Outcome(IF DictGet(stored, item, 0) <= 0
                          THEN DictDel(stored, item)
                          ELSE stored,
                          <<>>, <<Notice("INFO", "Removed")>>, "none", NoValue)
    ELSE Outcome(data, <<>>,
                 <<Notice("WARNING", "Attempted to remove an item that does not exist")>>,
                 "none", NoValue)

get_qty(data, item) ==
    IF ~Hashable(item)
    THEN \* data.get(item, 0) raises TypeError and nothing catches it
         Outcome(data, <<>>, <<>>, "TypeError", NoValue)
    ELSE Outcome(data, <<>>, <<>>, "none", DictGet(data, item, 0))

\* [item for item, quantity in data.items() if quantity < threshold]
RECURSIVE LowFrom(_, _, _)
LowFrom(data, i, threshold) ==
    IF i > Len(data) THEN <<>>
    ELSE (IF data[i].v < threshold THEN <<data[i].k>> ELSE <<>>)
         \o LowFrom(data, i + 1, threshold)

\* check_low_items with  quantity <= threshold
RECURSIVE LowOrEqualFrom(_, _, _)
LowOrEqualFrom(data, i, threshold) ==
    IF i > Len(data) THEN <<>>
    ELSE (IF data[i].v <= threshold THEN <<data[i].k>> ELSE <<>>)
         \o LowOrEqualFrom(data, i + 1, threshold)

check_low_items_le(data, threshold) ==
    Outcome(data, <<>>, <<>>, "none", LowOrEqualFrom(data, 1, threshold))

check_low_items(data, threshold) ==
    Outcome(data, <<>>, <<>>, "none", LowFrom(data, 1, threshold))

DefaultThreshold == 5

\* ------------------------------------------------------------ JSON text
\* A text is a sequence of characters.  The texts of the model are those
\* json.dump writes for a dict of str or int keys and int values, their
\* prefixes, and a few others made of the same tokens; on these the parser
\* below decides as json.load does (arrays, floats, nested values and the
\* other escapes are not among them).

Digits == <<"0", "1", "2", "3", "4", "5", "6", "7", "8", "9">>
DigitChar(d) == Digits[d + 1]
IsDigit(c) == \E d \in 0..9 : Digits[d + 1] = c
DigitVal(c) == CHOOSE d \in 0..9 : Digits[d + 1] = c

RECURSIVE NatRepr(_)
NatRepr(n) ==
    IF n < 10 THEN <<DigitChar(n)>>
    ELSE NatRepr(n \div 10) \o <<DigitChar(n % 10)>>

\* int.__repr__
IntRepr(n) == IF n < 0 THEN <<"-">> \o NatRepr(-n) ELSE NatRepr(n)

\* a string literal written without escaping
EncodeStrRaw(chars) == <<"\"">> \o chars \o <<"\"">>

\* A string literal: the characters between double quotes, with the double
\* quote and the backslash escaped by a backslash.
RECURSIVE EscapeFrom(_, _)
EscapeFrom(chars, i) ==
    IF i > Len(chars) THEN <<>>
    ELSE (IF chars[i] \in {"\"", "\\"} THEN <<"\\", chars[i]>> ELSE <<chars[i]>>)
         \o EscapeFrom(chars, i + 1)

EncodeStr(chars) == <<"\"">> \o EscapeFrom(chars, 1) \o <<"\"">>

\* json writes a str key as it is and an int key as the str of its digits
KeyChars(item) == item.chars

Indent == 4

RECURSIVE Spaces(_)
Spaces(n) == IF n = 0 THEN <<>> ELSE <<" ">> \o Spaces(n - 1)

RECURSIVE MembersFrom(_, _)
MembersFrom(data, i) ==
    IF i > Len(data) THEN <<>>
    ELSE (IF i > 1 THEN <<",">> ELSE <<>>)
         \o <<"\n">> \o Spaces(Indent)
         \o EncodeStr(KeyChars(data[i].k)) \o <<":", " ">> \o IntRepr(data[i].v)
         \o MembersFrom(data, i + 1)

\* json.dumps(data, indent=4)
Dump(data) ==
    IF Len(data) = 0 THEN <<"{", "}">>
    ELSE <<"{">> \o MembersFrom(data, 1) \o <<"\n", "}">>

\* ---- parsing

Whitespace == {" ", "\n", "\t", "\r"}
At(s, i) == IF i >= 1 /\ i <= Len(s) THEN s[i] ELSE "EOF"

Parsed(val, next) == [ok |-> TRUE, val |-> val, next |-> next]
Failed == [ok |-> FALSE, val |-> <<>>, next |-> 0]

RECURSIVE SkipWs(_, _)
SkipWs(s, i) == IF At(s, i) \in Whitespace THEN SkipWs(s, i + 1) ELSE i

\* the characters of a string literal whose opening quote is before i
RECURSIVE ScanString(_, _, _)
ScanString(s, i, acc) ==
    LET c == At(s, i)
    IN  IF c = "EOF" \/ c \in {"\n", "\t", "\r"} THEN Failed
        ELSE IF c = "\"" THEN Parsed(acc, i + 1)
        ELSE IF c = "\\"
        THEN IF At(s, i + 1) \in {"\"", "\\"}
             THEN ScanString(s, i + 2, Append(acc, At(s, i + 1)))
             ELSE Failed
        ELSE ScanString(s, i + 1, Append(acc, c))

RECURSIVE ScanDigits(_, _, _)
ScanDigits(s, i, acc) ==
    IF IsDigit(At(s, i))
    THEN ScanDigits(s, i + 1, 10 * acc + DigitVal(At(s, i)))
    ELSE Parsed(acc, i)

\* -?(0|[1-9][0-9]*)
ScanInt(s, i) ==
    LET neg == At(s, i) = "-"
        j == IF neg THEN i + 1 ELSE i
        mag == IF At(s, j) = "0" THEN Parsed(0, j + 1)
               ELSE IF IsDigit(At(s, j)) THEN ScanDigits(s, j, 0)
               ELSE Failed
    IN  IF ~mag.ok THEN Failed
        ELSE Parsed(IF neg THEN 0 - mag.val ELSE mag.val, mag.next)

\* the members of an object from the opening quote of a key at i on;
\* a key met twice keeps its first place and takes its last value
RECURSIVE ScanMembers(_, _, _)
ScanMembers(s, i, acc) ==
    IF At(s, i) # "\"" THEN Failed
    ELSE LET key == ScanString(s, i + 1, <<>>)
         IN  IF ~key.ok THEN Failed
             ELSE LET colon == SkipWs(s, key.next)
                  IN  IF At(s, colon) # ":" THEN Failed
                      ELSE LET num == ScanInt(s, SkipWs(s, colon + 1))
                           IN  IF ~num.ok THEN Failed
                               ELSE LET acc2 == DictSet(acc, Str(key.val), num.val)
                                        sep == SkipWs(s, num.next)
                                    IN  IF At(s, sep) = "}" THEN Parsed(acc2, sep + 1)
                                        ELSE IF At(s, sep) = ","
                                        THEN ScanMembers(s, SkipWs(s, sep + 1), acc2)
                                        ELSE Failed

ScanObject(s, i) ==
    IF At(s, i) # "{" THEN Failed
    ELSE LET j == SkipWs(s, i + 1)
         IN  IF At(s, j) = "}" THEN Parsed(<<>>, j + 1)
             ELSE ScanMembers(s, j, <<>>)

\* json.loads: ok = FALSE stands for JSONDecodeError
Loads(s) ==
    LET obj == ScanObject(s, SkipWs(s, 1))
    IN  IF ~obj.ok THEN Failed
        ELSE IF SkipWs(s, obj.next) <= Len(s) THEN Failed  \* extra data
        ELSE obj

\* ---------------------------------------------------------------- files

\* a byte that is not UTF-8, such as 0xFF
BadByte == "0xFF"

NoFile == [exists |-> FALSE, bytes |-> <<>>]
File(bytes) == [exists |-> TRUE, bytes |-> bytes]

\* reading a file opened with encoding="utf-8"
Decodable(bytes) == \A i \in 1..Len(bytes) : bytes[i] # BadByte

IOOutcome(files, ns, exc, ret) ==
    [files |-> files, notices |-> ns, raised |-> exc, ret |-> ret]

load_data(files, file) ==
    IF ~files[file].exists
    THEN IOOutcome(files, <<Notice("WARNING", "not found")>>, "none", <<>>)
    ELSE LET opened == <<Notice("INFO", "Inventory data loaded successfully")>>
         IN  IF ~Decodable(files[file].bytes)
             THEN IOOutcome(files, opened, "UnicodeDecodeError", NoValue)
             ELSE LET parsed == Loads(files[file].bytes)
                  IN  IF parsed.ok
                      THEN IOOutcome(files, opened, "none", parsed.val)
                      ELSE IOOutcome(files,
                                     opened \o <<Notice("ERROR", "Failed to decode JSON")>>,
                                     "none", <<>>)

save_data(files, data, file) ==
    IOOutcome([files EXCEPT ![file] = File(Dump(data))],
              <<Notice("INFO", "Inventory data saved successfully")>>,
              "none", NoValue)

\* what print writes: a line, given by its text and the values put in it
Printed(text, value) == [text |-> text, value |-> value]

RECURSIVE ReportFrom(_, _)
ReportFrom(data, i) ==
    IF i > Len(data) THEN <<>>
    ELSE <<Printed("item -> quantity", <<data[i].k, data[i].v>>)>>
         \o ReportFrom(data, i + 1)

print_data(data) ==
    <<Printed("--- Items Report ---", <<>>)>>
    \o (IF Len(data) = 0
        THEN <<Printed("Inventory is empty.", <<>>)>>
        ELSE ReportFrom(data, 1))
    \o <<Printed("--------------------", <<>>)>>

\* ------------------------------------------------------------------ state

VARIABLES
    inventory,  \* the dict the calls work on
    fs,         \* the files, by path
    logs,       \* the list the caller passed as logs to the last call, afterwards
    notices,    \* what the last call logged
    call,       \* the last call and its arguments
    result,     \* what the last call returned
    raised,     \* the exception that escaped the last call, "none" if none
    before,     \* inventory and fs when the last call began
    history,    \* the add_item and remove_item calls made with a hashable item
                \* and an int quantity, in order
    ncalls,     \* how many calls have been made
    saved,      \* the paths save_data has written the inventory to
    pc,         \* where main is; "idle" outside main
    stdout      \* what main has printed

vars == <<inventory, fs, logs, notices, call, result, raised, before, history,
          ncalls, saved, pc, stdout>>

DefaultFile == "inventory.json"
Paths == {DefaultFile, "backup.json"}

NoItem == [type |-> "none", chars |-> <<>>]
NoQty == [type |-> "none", n |-> 0]

Call(op, item, qty, lg, path, threshold) ==
    [op |-> op, item |-> item, qty |-> qty, logs |-> lg, path |-> path,
     threshold |-> threshold]

NoCall == Call("none", NoItem, NoQty, "None", "", 0)

Snapshot == [data |-> inventory, fs |-> fs]

Items == {apple, banana, aList}
Qtys == {IntQ(n) : n \in -1..MaxQty} \cup {ten}
Thresholds == (-1..(MaxQty + 1)) \cup {DefaultThreshold}

Valid(item, qty) == Hashable(item) /\ Numeric(qty)

\* ---------------------------------------------- calls on one inventory

Init ==
    /\ inventory = <<>>
    /\ fs = [p \in Paths |-> NoFile]
    /\ logs = <<>>
    /\ notices = <<>>
    /\ call = NoCall
    /\ result = NoValue
    /\ raised = "none"
    /\ before = [data |-> <<>>, fs |-> [p \in Paths |-> NoFile]]
    /\ history = <<>>
    /\ ncalls = 0
    /\ saved = {}
    /\ pc = "idle"
    /\ stdout = <<>>

\* add_item(inventory, item, qty) or add_item(inventory, item, qty, [])
AddItem ==
    \E item \in Items, qty \in Qtys, withLogs \in BOOLEAN :
        LET lg == IF withLogs THEN LogsList(<<>>) ELSE LogsNone
            out == add_item(inventory, item, qty, lg)
        IN  /\ pc = "idle"
            /\ ncalls < MaxCalls
            /\ ncalls' = ncalls + 1
            /\ inventory' = out.data
            /\ logs' = IF withLogs THEN out.logs ELSE <<>>
            /\ notices' = out.notices
            /\ call' = Call("add_item", item, qty, IF withLogs THEN "list" ELSE "None", "", 0)
            /\ result' = out.ret
            /\ raised' = out.raised
            /\ before' = Snapshot
            /\ history' = IF Valid(item, qty)
                          THEN Append(history, [op |-> "add", item |-> item, n |-> qty.n])
                          ELSE history
            /\ UNCHANGED <<fs, saved, pc, stdout>>

RemoveItem ==
    \E item \in Items, qty \in Qtys :
        LET out == remove_item(inventory, item, qty)
        IN  /\ pc = "idle"
            /\ ncalls < MaxCalls
            /\ ncalls' = ncalls + 1
            /\ inventory' = out.data
            /\ logs' = <<>>
            /\ notices' = out.notices
            /\ call' = Call("remove_item", item, qty, "None", "", 0)
            /\ result' = out.ret
            /\ raised' = out.raised
            /\ before' = Snapshot
            /\ history' = IF Valid(item, qty)
                          THEN Append(history, [op |-> "remove", item |-> item, n |-> qty.n])
                          ELSE history
            /\ UNCHANGED <<fs, saved, pc, stdout>>

GetQty ==
    \E item \in Items :
        LET out == get_qty(inventory, item)
        IN  /\ pc = "idle"
            /\ ncalls < MaxCalls
            /\ ncalls' = ncalls + 1
            /\ inventory' = out.data
            /\ logs' = <<>>
            /\ notices' = out.notices
            /\ call' = Call("get_qty", item, NoQty, "None", "", 0)
            /\ result' = out.ret
            /\ raised' = out.raised
            /\ before' = Snapshot
            /\ UNCHANGED <<fs, history, saved, pc, stdout>>

CheckLowItems ==
    \E threshold \in Thresholds :
        LET out == check_low_items(inventory, threshold)
        IN  /\ pc = "idle"
            /\ ncalls < MaxCalls
            /\ ncalls' = ncalls + 1
            /\ inventory' = out.data
            /\ logs' = <<>>
            /\ notices' = out.notices
            /\ call' = Call("check_low_items", NoItem, NoQty, "None", "", threshold)
            /\ result' = out.ret
            /\ raised' = out.raised
            /\ before' = Snapshot
            /\ UNCHANGED <<fs, history, saved, pc, stdout>>

Next == AddItem \/ RemoveItem \/ GetQty \/ CheckLowItems

Spec == Init /\ [][Next]_vars

\* ------------------------------------------------- properties under Spec

HasLevel(ns, level) == \E i \in 1..Len(ns) : ns[i].level = level

HashableItems == {item \in Items : Hashable(item)}

\* C1: after any sequence of add_item and remove_item calls with integer
\* quantities on an initially empty inventory, every key present has a
\* strictly positive quantity, and so check_low_items(inventory, 0) is empty.
C1_EveryQuantityPositive ==
    /\ \A i \in 1..Len(inventory) : inventory[i].v > 0
    /\ check_low_items(inventory, 0).ret = <<>>

\* the sum of the quantities of the calls op made for item in h
RECURSIVE SumOf(_, _, _)
SumOf(h, op, item) ==
    IF h = <<>> THEN 0
    ELSE (IF Head(h).op = op /\ Head(h).item = item THEN Head(h).n ELSE 0)
         + SumOf(Tail(h), op, item)

NetOf(h, item) == SumOf(h, "add", item) - SumOf(h, "remove", item)

AllPositive(h) == \A i \in 1..Len(h) : h[i].n > 0

\* C2 as stated: the final quantity of an item is the sum of all its adds
\* minus the sum of all its removes when that is > 0, and the item is absent
\* (get_qty 0) when it is <= 0.  A valid quantity is read as a strictly
\* positive one, the reading most favourable to the statement: what refutes
\* it then refutes it for all integer quantities too.
C2_NetOfAddsAndRemoves ==
    AllPositive(history) =>
        \A item \in HashableItems :
            IF NetOf(history, item) > 0
            THEN get_qty(inventory, item).ret = NetOf(history, item)
            ELSE ~Has(inventory, item) /\ get_qty(inventory, item).ret = 0

\* The running total of an item over the calls h[i..]: r is absent or present
\* with a total.  An add makes the item present with (its total, or 0 if
\* absent) plus the quantity; a remove of a present item subtracts the
\* quantity and makes the item absent if the result is <= 0; a remove of an
\* absent item changes nothing.
Absent == [present |-> FALSE, total |-> 0]
Present(n) == [present |-> TRUE, total |-> n]

RECURSIVE RunningFrom(_, _, _, _)
RunningFrom(h, i, item, r) ==
    IF i > Len(h) THEN r
    ELSE IF h[i].item # item THEN RunningFrom(h, i + 1, item, r)
    ELSE IF h[i].op = "add"
    THEN RunningFrom(h, i + 1, item, Present(r.total + h[i].n))
    ELSE IF r.present /\ r.total - h[i].n > 0
    THEN RunningFrom(h, i + 1, item, Present(r.total - h[i].n))
    ELSE RunningFrom(h, i + 1, item, Absent)

Running(h, item) == RunningFrom(h, 1, item, Absent)

\* C2, amended: the final quantity of an item is its running total, computed
\* call by call as above, and the item is present exactly when the running
\* total is.
C2_RunningTotal ==
    \A item \in HashableItems :
        /\ Has(inventory, item) = Running(history, item).present
        /\ get_qty(inventory, item).ret = Running(history, item).total

\* a removal took more than there was, and a later add started again from 0
C2_Witness ==
    /\ AllPositive(history)
    /\ Len(history) = 3
    /\ history[1].op = "add" /\ history[2].op = "remove" /\ history[3].op = "add"
    /\ \E item \in HashableItems :
        /\ \A i \in 1..3 : history[i].item = item
        /\ history[2].n > history[1].n
        /\ get_qty(inventory, item).ret = history[3].n
        /\ NetOf(history, item) > 0
        /\ NetOf(history, item) < history[3].n

\* C5: an add_item call whose item is unhashable or whose quantity is not a
\* number leaves the inventory as it was, logs an error, appends nothing to
\* the caller's log list and lets no exception escape.
C5_AddTypeMismatch ==
    (call.op = "add_item" /\ ~Valid(call.item, call.qty)) =>
        /\ inventory = before.data
        /\ HasLevel(notices, "ERROR")
        /\ logs = <<>>
        /\ raised = "none"

C5_Witness ==
    /\ call.op = "add_item"
    /\ call.qty = ten
    /\ Hashable(call.item)
    /\ call.logs = "list"
    /\ Len(inventory) = 1
    /\ ~Has(inventory, call.item)

\* C6 as stated: remove_item changes nothing when the item is absent, logging
\* a warning, and changes nothing when the quantity is not a number, logging
\* an error; no exception escapes.
C6_RemoveNoMutation ==
    call.op = "remove_item" =>
        /\ (Hashable(call.item) /\ ~Has(before.data, call.item)) =>
               (inventory = before.data /\ HasLevel(notices, "WARNING") /\ raised = "none")
        /\ ~Numeric(call.qty) =>
               (inventory = before.data /\ HasLevel(notices, "ERROR") /\ raised = "none")

\* C6, amended: remove_item changes nothing when the item is absent or the
\* quantity is not a number, and no exception escapes; it logs a warning
\* (and no error) when the item is absent, whatever the quantity is, and an
\* error when the item is present and the quantity is not a number or when
\* the item is unhashable.
C6_RemoveNoMutationAmended ==
    call.op = "remove_item" =>
        /\ (Hashable(call.item) /\ ~Has(before.data, call.item)) =>
               /\ inventory = before.data
               /\ HasLevel(notices, "WARNING") /\ ~HasLevel(notices, "ERROR")
               /\ raised = "none"
        /\ ((Hashable(call.item) /\ Has(before.data, call.item) /\ ~Numeric(call.qty))
              \/ ~Hashable(call.item)) =>
               /\ inventory = before.data
               /\ HasLevel(notices, "ERROR")
               /\ raised = "none"

C6_Witness ==
    /\ call.op = "remove_item"
    /\ call.qty = ten
    /\ Hashable(call.item)
    /\ Has(before.data, call.item)
    /\ Len(inventory) = 2
    /\ HasLevel(notices, "ERROR")

\* the places of the inventory whose quantity is below the threshold
LowPlaces(data, threshold) == {i \in 1..Len(data) : data[i].v < threshold}
Rank(data, threshold, i) ==
    Cardinality({m \in LowPlaces(data, threshold) : m <= i})

\* C7: check_low_items returns exactly the items whose quantity is strictly
\* below the threshold, each once, in the inventory's order, does not fail
\* and leaves the inventory unchanged.
C7_CheckLowItems ==
    call.op = "check_low_items" =>
        LET low == LowPlaces(inventory, call.threshold)
        IN  /\ raised = "none"
            /\ inventory = before.data
            /\ Len(result) = Cardinality(low)
            /\ {result[j] : j \in 1..Len(result)} = {inventory[i].k : i \in low}
            /\ \A i \in low : result[Rank(inventory, call.threshold, i)] = inventory[i].k

\* the second item is low and the first is not, one quantity being the threshold
C7_Witness ==
    /\ call.op = "check_low_items"
    /\ Len(inventory) = 2
    /\ inventory[1].v = call.threshold
    /\ inventory[2].v < call.threshold
    /\ result = <<inventory[2].k>>

\* C9: get_qty returns the stored quantity of a present item and 0 for an
\* absent one, for every item a caller can pass, does not fail and does not
\* change the inventory.
C9_GetQty ==
    call.op = "get_qty" =>
        /\ raised = "none"
        /\ inventory = before.data
        /\ result = (IF \E i \in 1..Len(before.data) : before.data[i].k = call.item
                     THEN before.data[CHOOSE i \in 1..Len(before.data) :
                                          before.data[i].k = call.item].v
                     ELSE 0)

\* ------------------------------------------ saving and loading: SpecIO

Entry(k, v) == [k |-> k, v |-> v]

IOKeys == {apple, quoted, k123}
IOValues == {-12, 0, 105}

\* the dicts of at most MaxItems entries over IOKeys and IOValues
Inventories ==
    UNION {{d \in [1..n -> [k : IOKeys, v : IOValues]] :
                \A i, j \in 1..n : i # j => d[i].k # d[j].k} : n \in 0..MaxItems}

Sample == Dump(<<Entry(quoted, -12)>>)

\* what the file may hold at the start: nothing that is JSON (no file, bytes
\* that are not UTF-8, every cut of a dump), and JSON written by other hands
InitFiles ==
    {NoFile, File(<<BadByte>>), File(Sample \o <<BadByte>>)}
    \cup {File(SubSeq(Sample, 1, n)) : n \in 0..(Len(Sample) - 1)}
    \cup {File(Sample \o <<"}">>),
          File(<<"{", "}", "x">>),
          File(<<"{", "\"", "a", "\"", ":", "7", ",", "}">>),
          File(<<"{", "\"", "a", "\"", ":", "0", "7", "}">>),
          File(<<"{", "\"", "a", "\"", ":", "7", "}">>),
          File(<<" ", "{", "\"", "a", "\"", ":", "-", "1", "0", ",", "\"", "a", "\"",
                 " ", ":", "\n", "2", "}", "\n">>),
          File(Dump(<<Entry(apple, 7), Entry(banana, 2)>>))}

InitIO ==
    /\ inventory \in Inventories
    /\ fs \in {[p \in Paths |-> IF p = DefaultFile THEN f ELSE NoFile] : f \in InitFiles}
    /\ logs = <<>>
    /\ notices = <<>>
    /\ call = NoCall
    /\ result = NoValue
    /\ raised = "none"
    /\ before = [data |-> inventory, fs |-> fs]
    /\ history = <<>>
    /\ ncalls = 0
    /\ saved = {}
    /\ pc = "idle"
    /\ stdout = <<>>

SaveData ==
    \E file \in Paths :
        LET out == save_data(fs, inventory, file)
        IN  /\ pc = "idle"
            /\ ncalls < MaxCalls
            /\ ncalls' = ncalls + 1
            /\ fs' = out.files
            /\ notices' = out.notices
            /\ call' = Call("save_data", NoItem, NoQty, "None", file, 0)
            /\ result' = out.ret
            /\ raised' = out.raised
            /\ before' = Snapshot
            /\ saved' = saved \cup {file}
            /\ logs' = <<>>
            /\ UNCHANGED <<inventory, history, pc, stdout>>

\* load_data(file): what it returns goes to result, the inventory stays
LoadData ==
    \E file \in Paths :
        LET out == load_data(fs, file)
        IN  /\ pc = "idle"
            /\ ncalls < MaxCalls
            /\ ncalls' = ncalls + 1
            /\ fs' = out.files
            /\ notices' = out.notices
            /\ call' = Call("load_data", NoItem, NoQty, "None", file, 0)
            /\ result' = out.ret
            /\ raised' = out.raised
            /\ before' = Snapshot
            /\ logs' = <<>>
            /\ UNCHANGED <<inventory, history, saved, pc, stdout>>

NextIO == SaveData \/ LoadData

SpecIO == InitIO /\ [][NextIO]_vars

\* ------------------------------------------------ properties under SpecIO

StrKeyed(data) == \A i \in 1..Len(data) : data[i].k.type = "str"

HasNotice(ns, msg) == \E i \in 1..Len(ns) : ns[i].msg = msg

\* C3: for an inventory of str keys and int values, save_data to a path
\* and then load_data from it returns a dict equal to the inventory, and
\* save_data leaves the inventory unchanged.
C3_RoundTrip ==
    /\ call.op = "save_data" => (inventory = before.data /\ raised = "none")
    /\ (call.op = "load_data" /\ call.path \in saved /\ StrKeyed(inventory)) =>
           (raised = "none" /\ DictEq(result, inventory))

\* a key that needs escaping and a negative quantity went through the file
C3_Witness ==
    /\ call.op = "load_data"
    /\ call.path \in saved
    /\ StrKeyed(inventory)
    /\ Len(inventory) = 2
    /\ Has(inventory, quoted)
    /\ \E i \in 1..2 : inventory[i].v < 0
    /\ \E i \in 1..2 : inventory[i].v > 100

\* a file that is no JSON: bytes that do not decode, or text json rejects
ValidJSON(bytes) == Decodable(bytes) /\ Loads(bytes).ok

\* C4: load_data on a path whose file is missing or holds no valid JSON
\* returns an empty inventory without raising and leaves the file as it is,
\* with a warning for a missing file and an error for a malformed one.
C4_LoadFallback ==
    (call.op = "load_data"
       /\ (~before.fs[call.path].exists \/ ~ValidJSON(before.fs[call.path].bytes))) =>
        /\ raised = "none"
        /\ result = <<>>
        /\ fs = before.fs
        /\ ~before.fs[call.path].exists => HasLevel(notices, "WARNING")
        /\ before.fs[call.path].exists => HasLevel(notices, "ERROR")

\* C10: a load_data call that falls back to the empty inventory, the file
\* being missing or malformed, logs no "loaded successfully" notice.
C10_NoSuccessNoticeOnFallback ==
    (call.op = "load_data" /\ raised = "none"
       /\ (HasLevel(notices, "WARNING") \/ HasLevel(notices, "ERROR"))) =>
        ~HasNotice(notices, "Inventory data loaded successfully")

\* ------------------------------------------------------- main: SpecMain

MainFiles == InitFiles \cup {File(Dump(d)) : d \in Inventories}

InitMain ==
    /\ inventory = <<>>
    /\ fs \in {[p \in Paths |-> IF p = DefaultFile THEN f ELSE NoFile] : f \in MainFiles}
    /\ logs = <<>>
    /\ notices = <<>>
    /\ call = Call("main", NoItem, NoQty, "None", "", 0)
    /\ result = NoValue
    /\ raised = "none"
    /\ before = [data |-> <<>>, fs |-> fs]
    /\ history = <<>>
    /\ ncalls = 0
    /\ saved = {}
    /\ pc = "load_data"
    /\ stdout = <<>>

\* In main the call in progress is main itself: before is the state main
\* started in and notices is what the run has logged so far.

\* inventory_data = load_data()
MainLoad ==
    LET out == load_data(fs, DefaultFile)
    IN  /\ pc = "load_data"
        /\ fs' = out.files
        /\ notices' = notices \o out.notices
        /\ raised' = out.raised
        /\ IF out.raised = "none"
           THEN inventory' = out.ret /\ pc' = "add_apple"
           ELSE inventory' = inventory /\ pc' = "failed"
        /\ ncalls' = ncalls + 1
        /\ UNCHANGED <<logs, call, result, before, history, saved, stdout>>

\* a step of main that calls add_item or remove_item
MainStep(at, out, then) ==
    /\ pc = at
    /\ inventory' = out.data
    /\ notices' = notices \o out.notices
    /\ raised' = out.raised
    /\ pc' = then
    /\ ncalls' = ncalls + 1
    /\ UNCHANGED <<fs, logs, call, result, before, history, saved, stdout>>

MainAddApple ==
    MainStep("add_apple", add_item(inventory, apple, IntQ(10), LogsNone), "add_banana")

MainAddBanana ==
    MainStep("add_banana", add_item(inventory, banana, IntQ(2), LogsNone), "add_123")

MainAdd123 ==
    MainStep("add_123", add_item(inventory, k123, ten, LogsNone), "remove_apple")

MainRemoveApple ==
    MainStep("remove_apple", remove_item(inventory, apple, IntQ(3)), "remove_orange")

MainRemoveOrange ==
    MainStep("remove_orange", remove_item(inventory, orange, IntQ(1)), "print_qty")

\* print(f"Apple stock: {get_qty(inventory_data, 'apple')}")
MainPrintQty ==
    LET out == get_qty(inventory, apple)
    IN  /\ pc = "print_qty"
        /\ stdout' = Append(stdout, Printed("Apple stock", out.ret))
        /\ pc' = "print_low"
        /\ ncalls' = ncalls + 1
        /\ UNCHANGED <<inventory, fs, logs, notices, call, result, raised, before,
                       history, saved>>

\* print(f"Low items: {check_low_items(inventory_data)}")
MainPrintLow ==
    LET out == check_low_items(inventory, DefaultThreshold)
    IN  /\ pc = "print_low"
        /\ stdout' = Append(stdout, Printed("Low items", out.ret))
        /\ pc' = "save_data"
        /\ ncalls' = ncalls + 1
        /\ UNCHANGED <<inventory, fs, logs, notices, call, result, raised, before,
                       history, saved>>

\* save_data(inventory_data)
MainSave ==
    LET out == save_data(fs, inventory, DefaultFile)
    IN  /\ pc = "save_data"
        /\ fs' = out.files
        /\ notices' = notices \o out.notices
        /\ saved' = saved \cup {DefaultFile}
        /\ pc' = "print_data"
        /\ ncalls' = ncalls + 1
        /\ UNCHANGED <<inventory, logs, call, result, raised, before, history, stdout>>

\* print_data(inventory_data)
MainReport ==
    /\ pc = "print_data"
    /\ stdout' = stdout \o print_data(inventory)
    /\ pc' = "done"
    /\ ncalls' = ncalls + 1
    /\ UNCHANGED <<inventory, fs, logs, notices, call, result, raised, before,
                   history, saved>>

NextMain ==
    \/ MainLoad
    \/ MainAddApple
    \/ MainAddBanana
    \/ MainAdd123
    \/ MainRemoveApple
    \/ MainRemoveOrange
    \/ MainPrintQty
    \/ MainPrintLow
    \/ MainSave
    \/ MainReport

SpecMain == InitMain /\ [][NextMain]_vars

\* ---------------------------------------------- properties under SpecMain

Final == <<Entry(apple, 7), Entry(banana, 2)>>

AfterSave == {"print_data", "done"}

CountNotices(ns, msg) == Cardinality({i \in 1..Len(ns) : ns[i].msg = msg})

\* C8: a run of main that starts with the default file missing ends with
\* the inventory {"apple": 7, "banana": 2}; the add of (123, "ten") and the
\* removal of "orange" change nothing; it prints 7 for apple and ["banana"]
\* as the low items; and its one save, made after every mutation and before
\* the report, writes that mapping to the file.
C8_MainRun ==
    ~before.fs[DefaultFile].exists =>
        /\ pc # "failed"
        /\ pc = "add_apple" => inventory = <<>>
        /\ pc = "add_banana" => DictEq(inventory, <<Entry(apple, 10)>>)
        /\ pc \in {"add_123", "remove_apple"} =>
               DictEq(inventory, <<Entry(apple, 10), Entry(banana, 2)>>)
        /\ pc \in {"remove_orange", "print_qty", "print_low", "save_data",
                    "print_data", "done"} =>
               DictEq(inventory, Final)
        /\ pc \in {"print_low", "save_data", "print_data", "done"} =>
               stdout[1] = Printed("Apple stock", 7)
        /\ pc \in {"save_data", "print_data", "done"} =>
               stdout[2] = Printed("Low items", <<banana>>)
        /\ pc \notin AfterSave =>
               /\ fs = before.fs
               /\ CountNotices(notices, "Inventory data saved successfully") = 0
        /\ pc \in AfterSave =>
               /\ CountNotices(notices, "Inventory data saved successfully") = 1
               /\ fs[DefaultFile].exists
               /\ ValidJSON(fs[DefaultFile].bytes)
               /\ DictEq(Loads(fs[DefaultFile].bytes).val, Final)
        /\ pc = "print_data" => Len(stdout) = 2
        /\ pc = "done" => Len(stdout) > 2

C8_Witness ==
    /\ pc = "done"
    /\ ~before.fs[DefaultFile].exists
    /\ HasLevel(notices, "ERROR")
    /\ HasNotice(notices, "Attempted to remove an item that does not exist")

====
